---- MODULE Spec2Model ----
(***************************************************************************)
(* The on-chain ledger core of walroad: the Move modules                   *)
(* bunker_contracts::collection and bunker_contracts::access_policy.       *)
(*                                                                         *)
(* Every entry function is one atomic step (one Sui transaction).  A Move  *)
(* abort reverts the whole transaction: the objects keep their values, no  *)
(* coin moves and no event is emitted; only the abort code is observable.  *)
(* Each entry function f is modelled by f_abort (the first assert!, or     *)
(* checked arithmetic, or vector/table/coin primitive that aborts, in the  *)
(* order the code runs them) and by the action f.                          *)
(*                                                                         *)
(* Object ids: collections[i] has id i, policies[j] has id j (ids are      *)
(* typed; 0 stands for option::none()).  Timestamps are supplied by the    *)
(* execution environment and are not stored in the model.                  *)
(* u64 arithmetic aborts instead of wrapping; the values of the model stay *)
(* far below 2^64, so only the subtraction underflows are reachable.       *)
(***************************************************************************)
EXTENDS Integers, Sequences, FiniteSets

VARIABLES
    config,       \* the shared PlatformConfig
    collections,  \* sequence of Collection objects, index = object id
    policies,     \* sequence of CollectionAccessPolicy objects, index = object id
    tokens,       \* sequence of minted AccessToken objects, in mint order
    transfers,    \* coin transfers made by the last transaction, in order
    emitted,      \* events emitted by the last transaction, in order
    last,         \* the last transaction: entry function and "ok" or abort code
    steps         \* number of transactions executed

vars == <<config, collections, policies, tokens, transfers, emitted, last, steps>>

\* ---------------------------------------------------------------- bounds
MaxSteps == 3
MaxCollections == 2
MaxPolicies == 2
MaxBatch == 2

\* ------------------------------------------------------- program constants
VISIBILITY_PUBLIC == 0
VISIBILITY_PRIVATE == 1
VISIBILITY_PAY_TO_SEE == 2
VISIBILITY_UNLISTED == 3
BPS_DENOMINATOR == 10000
INIT_PURCHASE_FEE_BPS == 250
INIT_TIP_FEE_BPS == 100
NoId == 0

\* ------------------------------------------------------------- principals
Addrs == {"alice", "bob", "carol"}
Deployer == "carol"

\* --------------------------------------------------------------- coin model
\* sui::coin::split(&mut coin, amount): aborts when the balance is too small.
coin_split_aborts(value, amount) == amount > value

\* One public_transfer of a coin.
Transfer(to, amount) == [to |-> to, amount |-> amount]

\* Mutant: the fee rounded up instead of truncated.
platform_fee_of_ceil(amount, bps) ==
    (amount * bps + (BPS_DENOMINATOR - 1)) \div BPS_DENOMINATOR

\* ------------------------------------------------------------- fee split
\* (amount * bps) / 10000 on u64: integer division truncates.
platform_fee_of(amount, bps) == (amount * bps) \div BPS_DENOMINATOR

\* ----------------------------------------------------------------- events
CollectionCreated(id, owner, name, visibility, file_count, is_encrypted) ==
    [type |-> "CollectionCreated", collection_id |-> id, owner |-> owner, name |-> name,
     visibility |-> visibility, file_count |-> file_count, is_encrypted |-> is_encrypted]

CollectionUpdated(id, name, description, visibility, price) ==
    [type |-> "CollectionUpdated", collection_id |-> id, name |-> name,
     description |-> description, visibility |-> visibility, price |-> price]

CollectionDeleted(id, owner) ==
    [type |-> "CollectionDeleted", collection_id |-> id, owner |-> owner]

AccessPurchased(id, buyer, price) ==
    [type |-> "AccessPurchased", collection_id |-> id, buyer |-> buyer, price |-> price]

TipReceived(id, tipper, amount) ==
    [type |-> "TipReceived", collection_id |-> id, tipper |-> tipper, amount |-> amount]

AccessGranted(pid, user) ==
    [type |-> "AccessGranted", policy_id |-> pid, user |-> user]

AccessRevoked(pid, user) ==
    [type |-> "AccessRevoked", policy_id |-> pid, user |-> user]

PolicyOwnershipTransferred(pid, old_owner, new_owner) ==
    [type |-> "PolicyOwnershipTransferred", policy_id |-> pid,
     old_owner |-> old_owner, new_owner |-> new_owner]

PolicyLinkedToCollection(pid, cid) ==
    [type |-> "PolicyLinkedToCollection", policy_id |-> pid, collection_id |-> cid]

\* ------------------------------------------------------ transaction outcome
\* A transaction that aborts: every object is left as it was.
Abort(op, code) ==
    /\ last' = [op |-> op, err |-> code]
    /\ transfers' = <<>>
    /\ emitted' = <<>>
    /\ steps' = steps + 1
    /\ UNCHANGED <<config, collections, policies, tokens>>

\* A transaction that commits.
Commit(op, coins, events) ==
    /\ last' = [op |-> op, err |-> "ok"]
    /\ transfers' = coins
    /\ emitted' = events
    /\ steps' = steps + 1


\* =================================================== module access_policy

\* Mutant: the new registry is left without its back-reference.
create_policy_unlinked(collection_id, owner) ==
    [collection_id |-> NoId, owner |-> owner,
     authorized_users |-> {}, total_authorized |-> 0]

\* create_policy: a registry already linked to its collection.
create_policy(collection_id, owner) ==
    [collection_id |-> collection_id, owner |-> owner,
     authorized_users |-> {}, total_authorized |-> 0]

\* The object create_standalone_policy shares: unlinked, owned by the sender.
standalone_policy(sender) ==
    [collection_id |-> NoId, owner |-> sender,
     authorized_users |-> {}, total_authorized |-> 0]

\* link_to_collection: the back-reference is assigned unconditionally.
link_to_collection(policy, collection_id) ==
    [policy EXCEPT !.collection_id = collection_id]

\* Mutant: the purchase forgets to record the buyer.
grant_access_skip(policy, user) == policy

\* Mutant: the counter is incremented without the contains check.
grant_access_always_counts(policy, user) ==
    [policy EXCEPT !.authorized_users = @ \cup {user},
                   !.total_authorized = @ + 1]

\* grant_access: add the user and count it, unless already present.
\* Mutant: granting to a principal already present removes the principal.
grant_access_toggle(policy, user) ==
    IF user \notin policy.authorized_users
    THEN [policy EXCEPT !.authorized_users = @ \cup {user},
                        !.total_authorized = @ + 1]
    ELSE [policy EXCEPT !.authorized_users = @ \ {user},
                        !.total_authorized = @ - 1]

grant_access(policy, user) ==
    IF user \notin policy.authorized_users
    THEN [policy EXCEPT !.authorized_users = @ \cup {user},
                        !.total_authorized = @ + 1]
    ELSE policy

\* The events grant_access emits on policy pid.
grant_access_events(policy, pid, user) ==
    IF user \notin policy.authorized_users THEN <<AccessGranted(pid, user)>> ELSE <<>>

\* grant_access_batch: the while loop over users, from index 0.
RECURSIVE grant_access_batch(_, _)
grant_access_batch(policy, users) ==
    IF users = <<>> THEN policy
    ELSE grant_access_batch(grant_access(policy, Head(users)), Tail(users))

RECURSIVE grant_access_batch_events(_, _, _)
grant_access_batch_events(policy, pid, users) ==
    IF users = <<>> THEN <<>>
    ELSE grant_access_events(policy, pid, Head(users)) \o
         grant_access_batch_events(grant_access(policy, Head(users)), pid, Tail(users))

\* Mutant: the counter is decremented but the table entry stays.
revoke_user_count_only(policy, user) ==
    [policy EXCEPT !.total_authorized = @ - 1]

\* The body of revoke_access after its asserts: table remove and checked decrement.
revoke_user(policy, user) ==
    [policy EXCEPT !.authorized_users = @ \ {user},
                   !.total_authorized = @ - 1]

\* Mutant: the owner assert is missing.
revoke_access_abort_no_owner(policy, sender, user) ==
    IF user \notin policy.authorized_users THEN "ENoAccess"
    ELSE IF policy.total_authorized < 1 THEN "ARITHMETIC_ERROR"
    ELSE "ok"

revoke_access_abort(policy, sender, user) ==
    IF policy.owner # sender THEN "ENotOwner"
    ELSE IF user \notin policy.authorized_users THEN "ENoAccess"
    ELSE IF policy.total_authorized < 1 THEN "ARITHMETIC_ERROR"
    ELSE "ok"

\* Mutant: the loop body runs without the contains check.
revoke_if_present_unchecked(policy, user) == revoke_user(policy, user)

\* One iteration of the revoke_access_batch loop.
revoke_if_present(policy, user) ==
    IF user \in policy.authorized_users THEN revoke_user(policy, user) ELSE policy

RECURSIVE revoke_access_batch_loop(_, _)
revoke_access_batch_loop(policy, users) ==
    IF users = <<>> THEN policy
    ELSE revoke_access_batch_loop(revoke_if_present(policy, Head(users)), Tail(users))

RECURSIVE revoke_access_batch_events(_, _, _)
revoke_access_batch_events(policy, pid, users) ==
    IF users = <<>> THEN <<>>
    ELSE (IF Head(users) \in policy.authorized_users
          THEN <<AccessRevoked(pid, Head(users))>> ELSE <<>>) \o
         revoke_access_batch_events(revoke_if_present(policy, Head(users)), pid, Tail(users))

\* The checked decrement inside the loop aborts when the counter is 0.
RECURSIVE revoke_access_batch_underflows(_, _)
revoke_access_batch_underflows(policy, users) ==
    IF users = <<>> THEN FALSE
    ELSE \/ (Head(users) \in policy.authorized_users /\ policy.total_authorized < 1)
         \/ revoke_access_batch_underflows(revoke_if_present(policy, Head(users)), Tail(users))

revoke_access_batch_abort(policy, sender, users) ==
    IF policy.owner # sender THEN "ENotOwner"
    ELSE IF revoke_access_batch_underflows(policy, users) THEN "ARITHMETIC_ERROR"
    ELSE "ok"

\* Mutant: the owner assert is missing.
transfer_ownership_abort_open(policy, sender) == "ok"

transfer_ownership_abort(policy, sender) ==
    IF policy.owner # sender THEN "ENotOwner" ELSE "ok"

\* can_decrypt of the registry: the owner, or a principal in authorized_users.
policy_can_decrypt(policy, requester) ==
    IF requester = policy.owner THEN TRUE
    ELSE IF requester \in policy.authorized_users THEN TRUE
    ELSE FALSE

\* object::id_to_bytes(&object::id(policy)): the bytes of the registry's object
\* id.  Every object id is an address, so all ids have the same length (32
\* bytes on chain, two here) and differ in at least one byte.
id_to_bytes(pid) == <<0, pid>>

\* The while loop of is_prefix, from index i.
RECURSIVE is_prefix_loop(_, _, _)
is_prefix_loop(prefix, data, i) ==
    IF i > Len(prefix) THEN TRUE
    ELSE IF prefix[i] # data[i] THEN FALSE
    ELSE is_prefix_loop(prefix, data, i + 1)

\* Mutant: only the lengths are compared.
is_prefix_length_only(prefix, data) == ~(Len(prefix) > Len(data))

is_prefix(prefix, data) ==
    IF Len(prefix) > Len(data) THEN FALSE
    ELSE is_prefix_loop(prefix, data, 1)

\* Mutant: the key-server check also rejects when the linked collection is
\* deleted.
seal_approve_abort_checks_deleted(policy, pid, id, requester) ==
    IF ~is_prefix(id_to_bytes(pid), id) THEN "ENotAuthorized"
    ELSE IF ~policy_can_decrypt(policy, requester) THEN "ENotAuthorized"
    ELSE IF /\ policy.collection_id \in DOMAIN collections
            /\ collections[policy.collection_id].is_deleted THEN "ENotAuthorized"
    ELSE "ok"

\* The two asserts of seal_approve on registry pid.
seal_approve_abort(policy, pid, id, requester) ==
    IF ~is_prefix(id_to_bytes(pid), id) THEN "ENotAuthorized"
    ELSE IF ~policy_can_decrypt(policy, requester) THEN "ENotAuthorized"
    ELSE "ok"

\* The assert of verify_decrypt_access.
verify_decrypt_access_abort(policy, requester) ==
    IF ~policy_can_decrypt(policy, requester) THEN "ENotAuthorized" ELSE "ok"

\* ------------------------------------------ access_policy entry points
\* seal_approve takes the registry by immutable reference: it only accepts or
\* aborts.  The request is kept with the outcome.
seal_approve(sender, id, pid) ==
    /\ steps < MaxSteps
    /\ pid \in DOMAIN policies
    /\ last' = [op |-> "seal_approve",
                err |-> seal_approve_abort(policies[pid], pid, id, sender),
                sender |-> sender, id |-> id, policy |-> pid]
    /\ transfers' = <<>>
    /\ emitted' = <<>>
    /\ steps' = steps + 1
    /\ UNCHANGED <<config, collections, policies, tokens>>

\* verify_decrypt_access: the same check without a request id.
verify_decrypt_access(sender, pid) ==
    /\ steps < MaxSteps
    /\ pid \in DOMAIN policies
    /\ last' = [op |-> "verify_decrypt_access",
                err |-> verify_decrypt_access_abort(policies[pid], sender),
                sender |-> sender, policy |-> pid]
    /\ transfers' = <<>>
    /\ emitted' = <<>>
    /\ steps' = steps + 1
    /\ UNCHANGED <<config, collections, policies, tokens>>

create_standalone_policy(sender) ==
    /\ steps < MaxSteps
    /\ Len(policies) < MaxPolicies
    /\ policies' = Append(policies, standalone_policy(sender))
    /\ UNCHANGED <<config, collections, tokens>>
    /\ Commit("create_standalone_policy", <<>>, <<>>)

\* grant_access_batch called directly by code of the package.
pkg_grant_access_batch(pid, users) ==
    /\ steps < MaxSteps
    /\ pid \in DOMAIN policies
    /\ policies' = [policies EXCEPT ![pid] = grant_access_batch(@, users)]
    /\ UNCHANGED <<config, collections, tokens>>
    /\ last' = [op |-> "grant_access_batch", err |-> "ok", users |-> users]
    /\ transfers' = <<>>
    /\ emitted' = grant_access_batch_events(policies[pid], pid, users)
    /\ steps' = steps + 1

revoke_access(sender, pid, user) ==
    /\ steps < MaxSteps
    /\ pid \in DOMAIN policies
    /\ LET err == revoke_access_abort(policies[pid], sender, user) IN
       IF err # "ok" THEN Abort("revoke_access", err)
       ELSE /\ policies' = [policies EXCEPT ![pid] = revoke_user(@, user)]
            /\ UNCHANGED <<config, collections, tokens>>
            /\ Commit("revoke_access", <<>>, <<AccessRevoked(pid, user)>>)

revoke_access_batch(sender, pid, users) ==
    /\ steps < MaxSteps
    /\ pid \in DOMAIN policies
    /\ LET err == revoke_access_batch_abort(policies[pid], sender, users) IN
       IF err # "ok" THEN Abort("revoke_access_batch", err)
       ELSE /\ policies' = [policies EXCEPT ![pid] = revoke_access_batch_loop(@, users)]
            /\ UNCHANGED <<config, collections, tokens>>
            /\ Commit("revoke_access_batch", <<>>,
                      revoke_access_batch_events(policies[pid], pid, users))

transfer_ownership(sender, pid, new_owner) ==
    /\ steps < MaxSteps
    /\ pid \in DOMAIN policies
    /\ LET err == transfer_ownership_abort(policies[pid], sender) IN
       IF err # "ok" THEN Abort("transfer_ownership", err)
       ELSE /\ policies' = [policies EXCEPT ![pid].owner = new_owner]
            /\ UNCHANGED <<config, collections, tokens>>
            /\ Commit("transfer_ownership", <<>>,
                      <<PolicyOwnershipTransferred(pid, policies[pid].owner, new_owner)>>)


\* ======================================================= module collection

\* init: the PlatformConfig shared at deployment.
init_config(sender) ==
    [platform_address |-> sender,
     purchase_fee_bps |-> INIT_PURCHASE_FEE_BPS,
     tip_fee_bps |-> INIT_TIP_FEE_BPS]

FileRef(inp, i) ==
    [blob_id |-> inp.blob_ids[i], name |-> inp.file_names[i],
     content_type |-> inp.content_types[i], size_bytes |-> inp.file_sizes[i],
     is_encrypted |-> inp.is_encrypted_flags[i]]

\* The while loop that builds files: iteration i borrows index i of all five
\* vectors, and vector::borrow aborts past the end of a vector.
RECURSIVE build_files(_, _, _)
build_files(inp, i, files) ==
    IF i > Len(inp.blob_ids) THEN [err |-> "ok", files |-> files]
    ELSE IF \/ i > Len(inp.file_names)
            \/ i > Len(inp.content_types)
            \/ i > Len(inp.file_sizes)
            \/ i > Len(inp.is_encrypted_flags)
         THEN [err |-> "EINDEX_OUT_OF_BOUNDS", files |-> <<>>]
    ELSE build_files(inp, i + 1, Append(files, FileRef(inp, i)))

\* The Collection struct literal of create_collection and
\* create_collection_with_policy.
new_collection(sender, inp, files, policy_id) ==
    [owner |-> sender,
     name |-> inp.name,
     description |-> inp.description,
     category |-> inp.category,
     tags |-> inp.tags,
     cover_image_blob_ids |-> inp.cover_image_blob_ids,
     files |-> files,
     visibility |-> inp.visibility,
     price |-> inp.price,
     purchase_count |-> 0,
     tip_count |-> 0,
     total_earnings |-> 0,
     total_tips |-> 0,
     is_encrypted |-> inp.is_encrypted,
     encryption_key_hash |-> inp.encryption_key_hash,
     access_policy_id |-> policy_id,
     is_deleted |-> FALSE]

create_collection(sender, inp) ==
    /\ steps < MaxSteps
    /\ Len(collections) < MaxCollections
    /\ inp.is_encrypted => Len(policies) < MaxPolicies
    /\ LET built == build_files(inp, 1, <<>>)
           cid == Len(collections) + 1
           pid == Len(policies) + 1
       IN
       IF built.err # "ok" THEN Abort("create_collection", built.err)
       ELSE /\ collections' = Append(collections,
                  new_collection(sender, inp, built.files,
                                 IF inp.is_encrypted THEN pid ELSE NoId))
            /\ policies' = IF inp.is_encrypted
                           THEN Append(policies, create_policy(cid, sender))
                           ELSE policies
            /\ UNCHANGED <<config, tokens>>
            /\ Commit("create_collection", <<>>,
                      <<CollectionCreated(cid, sender, inp.name, inp.visibility,
                                          Len(inp.blob_ids), inp.is_encrypted)>>)

create_collection_with_policy(sender, inp, pid) ==
    /\ steps < MaxSteps
    /\ Len(collections) < MaxCollections
    /\ pid \in DOMAIN policies
    /\ LET built == build_files(inp, 1, <<>>)
           cid == Len(collections) + 1
       IN
       IF built.err # "ok" THEN Abort("create_collection_with_policy", built.err)
       ELSE /\ collections' = Append(collections,
                  new_collection(sender, inp, built.files, pid))
            /\ policies' = [policies EXCEPT ![pid] = link_to_collection(@, cid)]
            /\ UNCHANGED <<config, tokens>>
            /\ Commit("create_collection_with_policy", <<>>,
                      <<PolicyLinkedToCollection(pid, cid),
                        CollectionCreated(cid, sender, inp.name, inp.visibility,
                                          Len(inp.blob_ids), inp.is_encrypted)>>)

\* Mutant: the owner assert is missing.
update_collection_abort_no_owner(collection, sender) ==
    IF collection.is_deleted THEN "ECollectionDeleted" ELSE "ok"

update_collection_abort(collection, sender) ==
    IF collection.owner # sender THEN "ENotOwner"
    ELSE IF collection.is_deleted THEN "ECollectionDeleted"
    ELSE "ok"

\* Mutant: the update also replaces the file manifest.
updated_collection_drops_files(collection, upd) ==
    [collection EXCEPT !.name = upd.name,
                       !.description = upd.description,
                       !.category = upd.category,
                       !.tags = upd.tags,
                       !.visibility = upd.visibility,
                       !.price = upd.price,
                       !.files = <<>>]

\* The six assignments of update_collection.
updated_collection(collection, upd) ==
    [collection EXCEPT !.name = upd.name,
                       !.description = upd.description,
                       !.category = upd.category,
                       !.tags = upd.tags,
                       !.visibility = upd.visibility,
                       !.price = upd.price]

update_collection(sender, c, upd) ==
    /\ steps < MaxSteps
    /\ c \in DOMAIN collections
    /\ LET err == update_collection_abort(collections[c], sender) IN
       IF err # "ok" THEN Abort("update_collection", err)
       ELSE /\ collections' = [collections EXCEPT ![c] = updated_collection(@, upd)]
            /\ UNCHANGED <<config, policies, tokens>>
            /\ Commit("update_collection", <<>>,
                      <<CollectionUpdated(c, upd.name, upd.description,
                                          upd.visibility, upd.price)>>)

delete_collection_abort(collection, sender) ==
    IF collection.owner # sender THEN "ENotOwner"
    ELSE IF collection.is_deleted THEN "ECollectionDeleted"
    ELSE "ok"

delete_collection(sender, c) ==
    /\ steps < MaxSteps
    /\ c \in DOMAIN collections
    /\ LET err == delete_collection_abort(collections[c], sender) IN
       IF err # "ok" THEN Abort("delete_collection", err)
       ELSE /\ collections' = [collections EXCEPT ![c].is_deleted = TRUE]
            /\ UNCHANGED <<config, policies, tokens>>
            /\ Commit("delete_collection", <<>>,
                      <<CollectionDeleted(c, collections[c].owner)>>)

\* Mutant: the is_deleted assert is missing.
purchase_abort_no_deleted(collection, cfg, payment_value, encrypted) ==
    LET platform_fee == (collection.price * cfg.purchase_fee_bps) \div BPS_DENOMINATOR IN
    IF collection.visibility # VISIBILITY_PAY_TO_SEE THEN "EInvalidPrice"
    ELSE IF collection.is_encrypted # encrypted THEN "EInvalidPrice"
    ELSE IF ~(payment_value >= collection.price) THEN "EInsufficientPayment"
    ELSE IF platform_fee > collection.price THEN "ARITHMETIC_ERROR"
    ELSE "ok"

\* ---------------------------------------------------------------- purchase
\* The asserts and the checked arithmetic shared by both purchase entry
\* points; encrypted is the mode the entry point requires.
purchase_abort(collection, cfg, payment_value, encrypted) ==
    LET platform_fee == platform_fee_of(collection.price, cfg.purchase_fee_bps) IN
    IF collection.is_deleted THEN "ECollectionDeleted"
    ELSE IF collection.visibility # VISIBILITY_PAY_TO_SEE THEN "EInvalidPrice"
    ELSE IF collection.is_encrypted # encrypted THEN "EInvalidPrice"
    ELSE IF ~(payment_value >= collection.price) THEN "EInsufficientPayment"
    ELSE IF platform_fee > collection.price THEN "ARITHMETIC_ERROR"
    ELSE IF coin_split_aborts(payment_value, collection.price - platform_fee)
         THEN "ENotEnough"
    ELSE IF coin_split_aborts(payment_value - (collection.price - platform_fee),
                              platform_fee)
         THEN "ENotEnough"
    ELSE "ok"

\* Mutant: the fee is taken from the payment value instead of the price.
purchase_transfers_fee_on_payment(collection, cfg, payment_value, sender) ==
    LET platform_fee == (payment_value * cfg.purchase_fee_bps) \div BPS_DENOMINATOR
        creator_amount == collection.price - platform_fee
        remaining == (payment_value - creator_amount) - platform_fee
    IN  <<Transfer(collection.owner, creator_amount),
          Transfer(cfg.platform_address, platform_fee)>> \o
        (IF remaining > 0 THEN <<Transfer(sender, remaining)>> ELSE <<>>)

\* The coin transfers of a purchase: creator, platform, then the excess if any
\* (a zero remainder is destroyed, not transferred).
purchase_transfers(collection, cfg, payment_value, sender) ==
    LET platform_fee == platform_fee_of(collection.price, cfg.purchase_fee_bps)
        creator_amount == collection.price - platform_fee
        remaining == (payment_value - creator_amount) - platform_fee
    IN  <<Transfer(collection.owner, creator_amount),
          Transfer(cfg.platform_address, platform_fee)>> \o
        (IF remaining > 0 THEN <<Transfer(sender, remaining)>> ELSE <<>>)

\* Mutant: the counter of the other settlement is incremented.
purchase_stats_wrong_counter(collection) ==
    [collection EXCEPT !.total_earnings = @ + collection.price,
                       !.tip_count = @ + 1]

\* Mutant: the statistics are written from a snapshot taken at creation, so
\* a second purchase overwrites the first.
purchase_stats_lost_update(collection) ==
    [collection EXCEPT !.total_earnings = collection.price,
                       !.purchase_count = 1]

\* "Update stats" of a purchase.
purchase_stats(collection) ==
    [collection EXCEPT !.total_earnings = @ + collection.price,
                       !.purchase_count = @ + 1]

AccessToken(collection_id, owner) ==
    [collection_id |-> collection_id, owner |-> owner]

purchase_access(sender, c, payment_value) ==
    /\ steps < MaxSteps
    /\ c \in DOMAIN collections
    /\ LET err == purchase_abort(collections[c], config, payment_value, FALSE) IN
       IF err # "ok" THEN Abort("purchase_access", err)
       ELSE /\ collections' = [collections EXCEPT ![c] = purchase_stats(@)]
            /\ tokens' = Append(tokens, AccessToken(c, sender))
            /\ UNCHANGED <<config, policies>>
            /\ Commit("purchase_access",
                      purchase_transfers(collections[c], config, payment_value, sender),
                      <<AccessPurchased(c, sender, collections[c].price)>>)

purchase_access_encrypted(sender, c, pid, payment_value) ==
    /\ steps < MaxSteps
    /\ c \in DOMAIN collections
    /\ pid \in DOMAIN policies
    /\ LET err == purchase_abort(collections[c], config, payment_value, TRUE) IN
       IF err # "ok" THEN Abort("purchase_access_encrypted", err)
       ELSE /\ collections' = [collections EXCEPT ![c] = purchase_stats(@)]
            /\ policies' = [policies EXCEPT ![pid] = grant_access(@, sender)]
            /\ tokens' = Append(tokens, AccessToken(c, sender))
            /\ UNCHANGED config
            /\ Commit("purchase_access_encrypted",
                      purchase_transfers(collections[c], config, payment_value, sender),
                      grant_access_events(policies[pid], pid, sender) \o
                      <<AccessPurchased(c, sender, collections[c].price)>>)

\* Mutant: the is_deleted assert is missing.
tip_creator_abort_no_deleted(collection, cfg, tip_amount) ==
    IF (tip_amount * cfg.tip_fee_bps) \div BPS_DENOMINATOR > tip_amount
    THEN "ARITHMETIC_ERROR" ELSE "ok"

\* --------------------------------------------------------------------- tips
tip_creator_abort(collection, cfg, tip_amount) ==
    LET platform_fee == platform_fee_of(tip_amount, cfg.tip_fee_bps) IN
    IF collection.is_deleted THEN "ECollectionDeleted"
    ELSE IF platform_fee > tip_amount THEN "ARITHMETIC_ERROR"
    ELSE IF coin_split_aborts(tip_amount, tip_amount - platform_fee) THEN "ENotEnough"
    ELSE IF coin_split_aborts(tip_amount - (tip_amount - platform_fee), platform_fee)
         THEN "ENotEnough"
    ELSE IF (tip_amount - (tip_amount - platform_fee)) - platform_fee # 0 THEN "ENonZero"
    ELSE "ok"

\* The two coin transfers of a tip; the emptied coin is destroyed.
tip_transfers(collection, cfg, tip_amount) ==
    LET platform_fee == platform_fee_of(tip_amount, cfg.tip_fee_bps)
        creator_amount == tip_amount - platform_fee
    IN  <<Transfer(collection.owner, creator_amount),
          Transfer(cfg.platform_address, platform_fee)>>

\* "Update stats" of a tip.
tip_stats(collection, tip_amount) ==
    [collection EXCEPT !.total_tips = @ + tip_amount,
                       !.tip_count = @ + 1]

tip_creator(sender, c, tip_amount) ==
    /\ steps < MaxSteps
    /\ c \in DOMAIN collections
    /\ LET err == tip_creator_abort(collections[c], config, tip_amount) IN
       IF err # "ok" THEN Abort("tip_creator", err)
       ELSE /\ collections' = [collections EXCEPT ![c] = tip_stats(@, tip_amount)]
            /\ UNCHANGED <<config, policies, tokens>>
            /\ Commit("tip_creator",
                      tip_transfers(collections[c], config, tip_amount),
                      <<TipReceived(c, sender, tip_amount)>>)

\* Mutant: the platform_address assert is missing.
update_platform_abort_open(cfg, sender) == "ok"

\* ---------------------------------------------------------- platform config
update_platform_abort(cfg, sender) ==
    IF cfg.platform_address # sender THEN "ENotOwner" ELSE "ok"

update_platform_address(sender, new_address) ==
    /\ steps < MaxSteps
    /\ LET err == update_platform_abort(config, sender) IN
       IF err # "ok" THEN Abort("update_platform_address", err)
       ELSE /\ config' = [config EXCEPT !.platform_address = new_address]
            /\ UNCHANGED <<collections, policies, tokens>>
            /\ Commit("update_platform_address", <<>>, <<>>)

update_platform_fees(sender, purchase_fee_bps, tip_fee_bps) ==
    /\ steps < MaxSteps
    /\ LET err == update_platform_abort(config, sender) IN
       IF err # "ok" THEN Abort("update_platform_fees", err)
       ELSE /\ config' = [config EXCEPT !.purchase_fee_bps = purchase_fee_bps,
                                        !.tip_fee_bps = tip_fee_bps]
            /\ UNCHANGED <<collections, policies, tokens>>
            /\ Commit("update_platform_fees", <<>>, <<>>)

\* Mutant: the Private test comes before the owner test.
has_access_private_first(collection, user, current_time) ==
    IF collection.is_deleted THEN FALSE
    ELSE IF collection.visibility = VISIBILITY_PRIVATE THEN FALSE
    ELSE IF collection.owner = user THEN TRUE
    ELSE IF \/ collection.visibility = VISIBILITY_PUBLIC
            \/ collection.visibility = VISIBILITY_UNLISTED THEN TRUE
    ELSE FALSE

\* Mutant: the is_deleted test is missing.
has_access_no_deleted(collection, user, current_time) ==
    IF collection.owner = user THEN TRUE
    ELSE IF \/ collection.visibility = VISIBILITY_PUBLIC
            \/ collection.visibility = VISIBILITY_UNLISTED THEN TRUE
    ELSE FALSE

\* ------------------------------------------------------ access verification
has_access(collection, user, current_time) ==
    IF collection.is_deleted THEN FALSE
    ELSE IF collection.owner = user THEN TRUE
    ELSE IF \/ collection.visibility = VISIBILITY_PUBLIC
            \/ collection.visibility = VISIBILITY_UNLISTED THEN TRUE
    ELSE IF collection.visibility = VISIBILITY_PRIVATE THEN FALSE
    ELSE FALSE

\* Mutant: an encrypted collection is decided by the registry alone.
can_decrypt_policy_only(collection, policy, user, current_time) ==
    IF ~collection.is_encrypted THEN has_access(collection, user, current_time)
    ELSE policy_can_decrypt(policy, user)

can_decrypt(collection, policy, user, current_time) ==
    IF ~collection.is_encrypted THEN has_access(collection, user, current_time)
    ELSE has_access(collection, user, current_time) /\ policy_can_decrypt(policy, user)


\* ================================================================== inputs
\* The arguments of a creation call: fixed metadata, nfiles entries in
\* blob_ids and nother entries in each of the other four per-file vectors
\* (nother < nfiles: the others are shorter; nother > nfiles: longer).
\* visibility is a u8: 4 and 255 are values outside the four VISIBILITY_*.
CreateInput(visibility, price, is_encrypted, nfiles, nother) ==
    [name |-> "n1", description |-> "d1", category |-> "c1", tags |-> <<"t1">>,
     cover_image_blob_ids |-> <<"cover1">>,
     blob_ids |-> SubSeq(<<"blob1", "blob2", "blob3">>, 1, nfiles),
     file_names |-> SubSeq(<<"f1", "f2", "f3">>, 1, nother),
     content_types |-> SubSeq(<<"text/plain", "image/png", "text/plain">>, 1, nother),
     file_sizes |-> SubSeq(<<10, 20, 30>>, 1, nother),
     is_encrypted_flags |-> SubSeq(<<is_encrypted, is_encrypted, is_encrypted>>, 1, nother),
     visibility |-> visibility, price |-> price, is_encrypted |-> is_encrypted,
     encryption_key_hash |-> IF is_encrypted THEN "hash1" ELSE ""]

\* The arguments of update_collection.
UpdateInput(visibility, price) ==
    [name |-> "n2", description |-> "d2", category |-> "c2", tags |-> <<"t2", "t2">>,
     visibility |-> visibility, price |-> price]

CreateInputs ==
    { CreateInput(VISIBILITY_PAY_TO_SEE, 1000, FALSE, 1, 1),
      CreateInput(VISIBILITY_PAY_TO_SEE, 1000, TRUE, 2, 2),
      CreateInput(VISIBILITY_PUBLIC, 30, FALSE, 0, 0),
      CreateInput(VISIBILITY_PRIVATE, 30, TRUE, 1, 1),
      CreateInput(VISIBILITY_UNLISTED, 0, FALSE, 1, 1),
      CreateInput(VISIBILITY_UNLISTED, 0, FALSE, 1, 2),
      CreateInput(VISIBILITY_UNLISTED, 0, FALSE, 2, 1),
      CreateInput(4, 30, FALSE, 0, 0) }

WithPolicyInputs ==
    { CreateInput(VISIBILITY_PAY_TO_SEE, 1000, TRUE, 1, 1),
      CreateInput(VISIBILITY_PUBLIC, 30, FALSE, 0, 0),
      CreateInput(VISIBILITY_PUBLIC, 30, FALSE, 0, 1),
      CreateInput(VISIBILITY_PUBLIC, 30, FALSE, 1, 0),
      CreateInput(4, 30, FALSE, 0, 0) }

UpdateInputs ==
    { UpdateInput(VISIBILITY_PAY_TO_SEE, 30),
      UpdateInput(VISIBILITY_PRIVATE, 1000),
      UpdateInput(255, 1000) }

Payments == {500, 1000, 1500}
Tips == {0, 150, 500}
FeeInputs == { <<100, 250>>, <<20000, 20000>> }

\* Sequences of principals of length 0..MaxBatch.
RECURSIVE SeqsUpTo(_, _)
SeqsUpTo(S, n) ==
    IF n = 0 THEN {<<>>}
    ELSE SeqsUpTo(S, n - 1) \cup
         { Append(q, x) : q \in { r \in SeqsUpTo(S, n - 1) : Len(r) = n - 1 }, x \in S }

\* The senders the transactions are drawn from: alice creates, alice and bob
\* call every entry point, carol deployed the package.
Creators == {"alice"}
Users == {"alice", "bob"}
Tippers == {"bob"}
Admins == {Deployer, "bob"}

Batches == SeqsUpTo(Users, MaxBatch)

\* The timestamps passed to has_access and can_decrypt.
Times == {0, 1000}

\* The request ids passed to seal_approve: a registry's id bytes alone,
\* followed by a nonce, or followed by the id bytes of registry 1; and a request
\* shorter than an id.
RequestIds ==
    {<<0>>} \cup
    { id_to_bytes(p) \o n : p \in 1..MaxPolicies, n \in {<<>>, <<7>>, id_to_bytes(1)} }

\* =========================================================== specification
Init ==
    /\ config = init_config(Deployer)
    /\ collections = <<>>
    /\ policies = <<>>
    /\ tokens = <<>>
    /\ transfers = <<>>
    /\ emitted = <<>>
    /\ last = [op |-> "init", err |-> "ok"]
    /\ steps = 0

Next ==
    \/ \E s \in Creators, inp \in CreateInputs : create_collection(s, inp)
    \/ \E s \in Users, inp \in WithPolicyInputs, pid \in 1..MaxPolicies :
          create_collection_with_policy(s, inp, pid)
    \/ \E s \in Users, c \in 1..MaxCollections, upd \in UpdateInputs :
          update_collection(s, c, upd)
    \/ \E s \in Users, c \in 1..MaxCollections : delete_collection(s, c)
    \/ \E s \in Users, c \in 1..MaxCollections, v \in Payments : purchase_access(s, c, v)
    \/ \E s \in Users, c \in 1..MaxCollections, pid \in 1..MaxPolicies, v \in Payments :
          purchase_access_encrypted(s, c, pid, v)
    \/ \E s \in Tippers, c \in 1..MaxCollections, v \in Tips : tip_creator(s, c, v)
    \/ \E s \in Admins, a \in Tippers : update_platform_address(s, a)
    \/ \E s \in Admins, f \in FeeInputs : update_platform_fees(s, f[1], f[2])
    \/ \E s \in Users : create_standalone_policy(s)
    \/ \E s \in Users, pid \in 1..MaxPolicies, u \in Users : revoke_access(s, pid, u)
    \/ \E s \in Users, pid \in 1..MaxPolicies, us \in Batches :
          revoke_access_batch(s, pid, us)
    \/ \E s \in Users, pid \in 1..MaxPolicies, a \in Users : transfer_ownership(s, pid, a)

Spec == Init /\ [][Next]_vars

\* The entry points together with direct calls of the package-internal
\* grant_access_batch (public(package), no caller in the collection module).
NextPkg ==
    \/ Next
    \/ \E pid \in 1..MaxPolicies, us \in Batches : pkg_grant_access_batch(pid, us)

SpecPkg == Init /\ [][NextPkg]_vars

\* The entry points together with the key servers' evaluations of
\* seal_approve and verify_decrypt_access.
NextSeal ==
    \/ Next
    \/ \E s \in Users, id \in RequestIds, pid \in 1..MaxPolicies : seal_approve(s, id, pid)
    \/ \E s \in Users, pid \in 1..MaxPolicies : verify_decrypt_access(s, pid)

SpecSeal == Init /\ [][NextSeal]_vars


\* ================================================================== claims

RECURSIVE SumAmounts(_)
SumAmounts(ts) == IF ts = <<>> THEN 0 ELSE Head(ts).amount + SumAmounts(Tail(ts))

\* f is floor(amount * bps / 10000).
IsFloorFee(f, amount, bps) ==
    /\ f * 10000 <= amount * bps
    /\ amount * bps < (f + 1) * 10000

CollIds == 1..MaxCollections
PolicyIds == 1..MaxPolicies

\* A step that is the call purchase_access(s, c, v) or
\* purchase_access_encrypted(s, c, pid, v) for some registry pid.
PurchaseCall(s, c, v) ==
    \/ purchase_access(s, c, v)
    \/ \E pid \in PolicyIds : purchase_access_encrypted(s, c, pid, v)

Stats(collection) ==
    <<collection.purchase_count, collection.total_earnings,
      collection.tip_count, collection.total_tips>>

\* ---------------------------------------------------------------------- C1
\* C1: every successful purchase (either entry point) with payment v on a
\* collection of price p under purchase_fee_bps b transfers p - floor(p*b/10000)
\* to the owner, floor(p*b/10000) to the platform address and v - p back to the
\* caller (no transfer when v = p); the first two sum to p and all sum to v.
C1_PurchaseConservesValue ==
    [][\A s \in Users, c \in CollIds, v \in Payments :
         (PurchaseCall(s, c, v) /\ last'.err = "ok") =>
            LET p == collections[c].price
                fee == transfers'[2].amount
                creator == transfers'[1].amount
                refund == IF Len(transfers') = 3 THEN transfers'[3].amount ELSE 0
            IN  /\ Len(transfers') \in {2, 3}
                /\ IsFloorFee(fee, p, config.purchase_fee_bps)
                /\ transfers'[2].to = config.platform_address
                /\ creator = p - fee
                /\ transfers'[1].to = collections[c].owner
                /\ refund = v - p
                /\ Len(transfers') = 3 <=> v > p
                /\ Len(transfers') = 3 => transfers'[3].to = s
                /\ creator + fee = p
                /\ creator + fee + refund = v
                /\ SumAmounts(transfers') = v
                /\ creator >= 0 /\ fee >= 0 /\ refund >= 0
      ]_vars

\* p = 1000, b = 250, v = 1500 settles as 975 / 25 / 500.
C1_Witness ==
    /\ last = [op |-> "purchase_access", err |-> "ok"]
    /\ config.purchase_fee_bps = 250
    /\ transfers = <<Transfer("alice", 975), Transfer("carol", 25), Transfer("bob", 500)>>

\* ---------------------------------------------------------------------- C2
\* The preconditions of a purchase through the entry point of mode encrypted.
PurchaseRejectCase(c, v, encrypted) ==
    \/ collections[c].is_deleted
    \/ collections[c].visibility # VISIBILITY_PAY_TO_SEE
    \/ collections[c].is_encrypted # encrypted
    \/ v < collections[c].price

\* C2: a purchase whose payment is below the price, or on a deleted
\* collection, or on a collection that is not PayToSee, or through the entry
\* point of the other encryption mode, is rejected: no transfer, no event, and
\* the collections, the registries, the tokens and the fee policy are unchanged.
C2_RejectedPurchaseChangesNothing ==
    [][\A s \in Users, c \in CollIds, v \in Payments :
         ( \/ (purchase_access(s, c, v) /\ PurchaseRejectCase(c, v, FALSE))
           \/ \E pid \in PolicyIds :
                 (purchase_access_encrypted(s, c, pid, v) /\ PurchaseRejectCase(c, v, TRUE)) )
         => /\ last'.err # "ok"
            /\ transfers' = <<>>
            /\ emitted' = <<>>
            /\ UNCHANGED <<collections, policies, tokens, config>>
      ]_vars

C2_Witness ==
    /\ last = [op |-> "purchase_access", err |-> "EInsufficientPayment"]
    /\ transfers = <<>>
    /\ \E c \in DOMAIN collections :
          /\ collections[c].visibility = VISIBILITY_PAY_TO_SEE
          /\ ~collections[c].is_deleted /\ ~collections[c].is_encrypted
          /\ collections[c].price > 500
          /\ collections[c].purchase_count = 0

\* ---------------------------------------------------------------------- C3
\* C3: a call of purchase_access_encrypted on collection c with registry pid
\* either settles the payment, adds 1 to purchase_count and the price to
\* total_earnings and leaves the caller in the authorized_users of pid, or
\* does none of it (no transfer, collections and registries unchanged); and a
\* principal enters a registry's authorized_users only in a committed
\* purchase_access_encrypted step of that principal, which settles a payment.
C3_EncryptedPurchaseAtomic ==
    [][/\ \A pid \in DOMAIN policies, u \in Addrs :
            (u \notin policies[pid].authorized_users /\ u \in policies'[pid].authorized_users)
            => /\ last' = [op |-> "purchase_access_encrypted", err |-> "ok"]
               /\ Len(transfers') >= 2
               /\ \E c \in DOMAIN collections :
                     /\ emitted'[Len(emitted')] = AccessPurchased(c, u, collections[c].price)
                     /\ collections'[c].purchase_count = collections[c].purchase_count + 1
       /\ \A s \in Users, c \in CollIds, pid \in PolicyIds, v \in Payments :
         purchase_access_encrypted(s, c, pid, v) =>
            \/ /\ last'.err = "ok"
               /\ Len(transfers') >= 2
               /\ SumAmounts(transfers') = v
               /\ collections'[c].purchase_count = collections[c].purchase_count + 1
               /\ collections'[c].total_earnings =
                     collections[c].total_earnings + collections[c].price
               /\ s \in policies'[pid].authorized_users
               /\ Len(tokens') = Len(tokens) + 1
            \/ /\ last'.err # "ok"
               /\ transfers' = <<>>
               /\ UNCHANGED <<collections, policies, tokens>>
      ]_vars

C3_Witness ==
    /\ last = [op |-> "purchase_access_encrypted", err |-> "ok"]
    /\ \E c \in DOMAIN collections :
          /\ collections[c].is_encrypted
          /\ collections[c].purchase_count = 1
          /\ collections[c].total_earnings = 1000
          /\ collections[c].access_policy_id \in DOMAIN policies
          /\ "bob" \in policies[collections[c].access_policy_id].authorized_users
          /\ tokens = <<AccessToken(c, "bob")>>
    /\ SumAmounts(transfers) = 1500

\* ---------------------------------------------------------------------- C4
\* C4: purchase_access_encrypted called with a registry other than the one
\* the collection's access_policy_id names is rejected, and that registry is
\* left unchanged.
C4_OtherRegistryRejected ==
    [][\A s \in Users, c \in CollIds, pid \in PolicyIds, v \in Payments :
         (purchase_access_encrypted(s, c, pid, v) /\ collections[c].access_policy_id # pid)
         => /\ last'.err # "ok"
            /\ policies'[pid] = policies[pid]
      ]_vars

\* ---------------------------------------------------------------------- C5
\* C5: once a registry's collection_id is set it never changes: a later link
\* attempt does not overwrite it.
C5_LinkedOnce ==
    [][\A pid \in DOMAIN policies :
         policies[pid].collection_id # NoId =>
            policies'[pid].collection_id = policies[pid].collection_id
      ]_vars

\* ---------------------------------------------------------------------- C6
\* C6: a deleted collection stays deleted and is never changed again, and
\* every purchase, encrypted purchase, tip, update and delete on it is rejected
\* with no transfer and no change of any object, for every visibility and
\* every caller.
C6_DeletedIsFinal ==
    [][\A c \in DOMAIN collections :
         collections[c].is_deleted =>
            /\ collections'[c].is_deleted
            /\ collections'[c] = collections[c]
            /\ \A s \in Users \cup Tippers :
                  ( \/ \E v \in Payments : PurchaseCall(s, c, v)
                    \/ \E t \in Tips : tip_creator(s, c, t)
                    \/ \E upd \in UpdateInputs : update_collection(s, c, upd)
                    \/ delete_collection(s, c) )
                  => /\ last'.err # "ok"
                     /\ transfers' = <<>>
                     /\ UNCHANGED <<collections, policies, tokens, config>>
      ]_vars

\* A tip on a deleted collection that is not PayToSee was rejected.
C6_Witness ==
    /\ last = [op |-> "tip_creator", err |-> "ECollectionDeleted"]
    /\ \E c \in DOMAIN collections :
          collections[c].is_deleted /\ collections[c].visibility = VISIBILITY_PUBLIC
    /\ \A c \in DOMAIN collections : collections[c].is_deleted

\* ---------------------------------------------------------------------- C7
\* C7: update_collection and delete_collection called by a principal who is
\* not the collection's owner are rejected and leave every collection as it
\* was; a call that succeeds was made by the owner.
C7_OwnerOnly ==
    [][\A s \in Users, c \in CollIds :
         ( \/ \E upd \in UpdateInputs : update_collection(s, c, upd)
           \/ delete_collection(s, c) )
         => /\ s # collections[c].owner =>
                  (last'.err # "ok" /\ collections' = collections)
            /\ last'.err = "ok" => s = collections[c].owner
      ]_vars

C7_Witness ==
    /\ last = [op |-> "update_collection", err |-> "ENotOwner"]
    /\ \E c \in DOMAIN collections :
          /\ collections[c].owner = "alice"
          /\ ~collections[c].is_deleted
          /\ collections[c].name = "n1"

\* ---------------------------------------------------------------------- C8
\* C8: in every step, the four statistics of every collection either stay as
\* they are, or the step is a successful purchase on it (purchase_count + 1,
\* total_earnings + price, tips unchanged) or a successful tip on it
\* (tip_count + 1, total_tips + amount, purchases unchanged); a successful
\* purchase or tip always has that effect, and a new collection starts at zero.
C8_StatsOnlyBySettlement ==
    [][/\ \A c \in DOMAIN collections :
            LET old == collections[c]
                new == collections'[c]
                purchased == /\ last'.err = "ok"
                             /\ last'.op \in {"purchase_access", "purchase_access_encrypted"}
                             /\ \E s \in Users, v \in Payments : PurchaseCall(s, c, v)
                tipped(t) == /\ last' = [op |-> "tip_creator", err |-> "ok"]
                             /\ \E s \in Tippers : tip_creator(s, c, t)
            IN  /\ c \in DOMAIN collections'
                /\ purchased =>
                      Stats(new) = <<old.purchase_count + 1, old.total_earnings + old.price,
                                     old.tip_count, old.total_tips>>
                /\ \A t \in Tips : tipped(t) =>
                      Stats(new) = <<old.purchase_count, old.total_earnings,
                                     old.tip_count + 1, old.total_tips + t>>
                /\ (~purchased /\ \A t \in Tips : ~tipped(t)) => Stats(new) = Stats(old)
                /\ new.purchase_count >= old.purchase_count
                /\ new.total_earnings >= old.total_earnings
                /\ new.tip_count >= old.tip_count
                /\ new.total_tips >= old.total_tips
       /\ \A c \in DOMAIN collections' \ DOMAIN collections :
            Stats(collections'[c]) = <<0, 0, 0, 0>>
      ]_vars

\* An overpaid purchase (a refund was transferred) booked the price only.
C8_Witness ==
    /\ last = [op |-> "purchase_access", err |-> "ok"]
    /\ Len(transfers) = 3
    /\ \E c \in DOMAIN collections :
          /\ collections[c].price = 1000
          /\ Stats(collections[c]) = <<1, 1000, 1, 150>>

\* ---------------------------------------------------------------------- C9
\* C9: every successful tip of amount t under tip_fee_bps b makes exactly two
\* transfers, t - floor(t*b/10000) to the owner and floor(t*b/10000) to the
\* platform address, which sum to t; nothing goes back to the tipper.
C9_TipSplit ==
    [][\A s \in Tippers, c \in CollIds, t \in Tips :
         (tip_creator(s, c, t) /\ last'.err = "ok") =>
            /\ Len(transfers') = 2
            /\ IsFloorFee(transfers'[2].amount, t, config.tip_fee_bps)
            /\ transfers'[2].to = config.platform_address
            /\ transfers'[1].amount = t - transfers'[2].amount
            /\ transfers'[1].to = collections[c].owner
            /\ transfers'[1].amount + transfers'[2].amount = t
            /\ transfers'[1].amount >= 0
      ]_vars

\* t = 500, b = 100: creator 495, platform 5.
C9_Witness ==
    /\ last = [op |-> "tip_creator", err |-> "ok"]
    /\ config.tip_fee_bps = 100
    /\ transfers = <<Transfer("alice", 495), Transfer("carol", 5)>>

\* --------------------------------------------------------------------- C10
\* C10: in every reachable state every registry's total_authorized is the
\* number of principals in its authorized_users.
C10_TotalAuthorizedIsCardinality ==
    \A pid \in DOMAIN policies :
        policies[pid].total_authorized = Cardinality(policies[pid].authorized_users)

\* A batch grant that names the same principal twice counted it once.
C10_Witness ==
    /\ last.op = "grant_access_batch"
    /\ last.users = <<"bob", "bob">>
    /\ \E pid \in DOMAIN policies :
          /\ policies[pid].authorized_users = {"alice", "bob"}
          /\ policies[pid].total_authorized = 2
    /\ emitted # <<>>

\* --------------------------------------------------------------------- C11
\* The principals a committed revoke_access_batch(us) removes from policy.
BatchRemoved(policy, us) ==
    { us[k] : k \in DOMAIN us } \cap policy.authorized_users

\* A step in which registry pid revokes principal u: a committed revoke_access
\* of u, or a committed revoke_access_batch that lists u while u is present.
Revokes(pid, u) ==
    /\ last'.err = "ok"
    /\ \/ /\ last'.op = "revoke_access"
          /\ \E s \in Users : revoke_access(s, pid, u)
       \/ /\ last'.op = "revoke_access_batch"
          /\ \E s \in Users, us \in Batches :
                revoke_access_batch(s, pid, us) /\ u \in BatchRemoved(policies[pid], us)

StartsWith(id, bytes) ==
    /\ Len(bytes) <= Len(id)
    /\ SubSeq(id, 1, Len(bytes)) = bytes

\* C12: seal_approve(id, policy) called by p accepts if and only if the
\* registry's id bytes are a prefix of id and p is the registry's current
\* owner or is in its authorized_users; otherwise it rejects with
\* ENotAuthorized.  A request id that starts with the id bytes of another
\* registry is rejected.
C12_SealApproveIffNamespacedAndAuthorized ==
    last.op = "seal_approve" =>
        LET policy == policies[last.policy]
            allowed == \/ last.sender = policy.owner
                       \/ last.sender \in policy.authorized_users
        IN  /\ last.err = "ok" <=> (StartsWith(last.id, id_to_bytes(last.policy)) /\ allowed)
            /\ last.err \in {"ok", "ENotAuthorized"}
            /\ \A other \in DOMAIN policies \ {last.policy} :
                  StartsWith(last.id, id_to_bytes(other)) => last.err = "ENotAuthorized"

\* The owner of registries 1 and 2 presented a request namespaced for
\* registry 2 against registry 1 and was rejected.
C12_Witness ==
    /\ last.op = "seal_approve"
    /\ last.err = "ENotAuthorized"
    /\ last.policy = 1
    /\ last.id = id_to_bytes(2) \o <<7>>
    /\ Len(policies) = 2
    /\ policies[1].owner = last.sender
    /\ policies[2].owner = last.sender

\* --------------------------------------------------------------------- C13
\* C13: revoke_access(policy, user) succeeds exactly when the caller is the
\* registry's owner and user is in authorized_users; it then removes exactly
\* that principal, decrements total_authorized by 1 and changes nothing else.
\* A call by another principal (ENotOwner) or for an absent principal
\* (ENoAccess) is rejected and every registry is unchanged.
C13_RevokeAccess ==
    [][last'.op = "revoke_access" =>
         \A s \in Users, pid \in PolicyIds, u \in Users :
            revoke_access(s, pid, u) =>
               LET policy == policies[pid] IN
               IF s = policy.owner /\ u \in policy.authorized_users
               THEN /\ last'.err = "ok"
                    /\ policies'[pid].authorized_users = policy.authorized_users \ {u}
                    /\ policies'[pid].total_authorized = policy.total_authorized - 1
                    /\ policies'[pid].owner = policy.owner
                    /\ policies'[pid].collection_id = policy.collection_id
                    /\ \A other \in DOMAIN policies \ {pid} : policies'[other] = policies[other]
                    /\ Len(policies') = Len(policies)
                    /\ UNCHANGED <<collections, tokens, config>>
               ELSE /\ last'.err = IF s # policy.owner THEN "ENotOwner" ELSE "ENoAccess"
                    /\ emitted' = <<>>
                    /\ UNCHANGED <<policies, collections, tokens, config>>
      ]_vars

\* A revoke_access for a principal who is not in authorized_users was
\* rejected while another principal is authorized.
C13_Witness ==
    /\ last = [op |-> "revoke_access", err |-> "ENoAccess"]
    /\ \E pid \in DOMAIN policies :
          /\ policies[pid].authorized_users = {"bob"}
          /\ policies[pid].total_authorized = 1
          /\ policies[pid].owner = "alice"

\* --------------------------------------------------------------------- C14
Listed(us) == { us[k] : k \in DOMAIN us }

\* C14: revoke_access_batch called by a principal who is not the owner is
\* rejected and every registry is unchanged; called by the owner it always
\* succeeds: authorized_users loses exactly the listed principals that were
\* present (absent and repeated entries are skipped), total_authorized drops by
\* their number, one AccessRevoked is emitted for each, and nothing else changes.
C14_RevokeBatch ==
    [][last'.op = "revoke_access_batch" =>
         \A s \in Users, pid \in PolicyIds, us \in Batches :
            revoke_access_batch(s, pid, us) =>
               LET policy == policies[pid]
                   removed == BatchRemoved(policy, us)
               IN
               IF s # policy.owner
               THEN /\ last'.err = "ENotOwner"
                    /\ emitted' = <<>>
                    /\ UNCHANGED <<policies, collections, tokens, config>>
               ELSE /\ last'.err = "ok"
                    /\ policies'[pid].authorized_users = policy.authorized_users \ Listed(us)
                    /\ policy.authorized_users \ Listed(us) \subseteq policies'[pid].authorized_users
                    /\ policies'[pid].total_authorized =
                          policy.total_authorized - Cardinality(removed)
                    /\ policies'[pid].owner = policy.owner
                    /\ policies'[pid].collection_id = policy.collection_id
                    /\ \A other \in DOMAIN policies \ {pid} : policies'[other] = policies[other]
                    /\ Len(emitted') = Cardinality(removed)
                    /\ \A u \in removed :
                          \E k \in DOMAIN emitted' : emitted'[k] = AccessRevoked(pid, u)
                    /\ UNCHANGED <<collections, tokens, config>>
      ]_vars

\* A batch by the owner removed bob and left alice, who was not listed.
C14_Witness ==
    /\ last = [op |-> "revoke_access_batch", err |-> "ok"]
    /\ \E pid \in DOMAIN policies :
          /\ emitted = <<AccessRevoked(pid, "bob")>>
          /\ policies[pid].authorized_users = {"alice"}
          /\ policies[pid].total_authorized = 1

\* --------------------------------------------------------------------- C15
\* C15: transfer_ownership succeeds exactly when the caller is the registry's
\* current owner, and then only the owner field changes; a registry's owner
\* changes in no other step.  Every revoke_access, revoke_access_batch and
\* transfer_ownership call by a principal who is not the current owner - so
\* every call by the old owner after a transfer to someone else - is rejected
\* with ENotOwner and leaves every registry unchanged.
C15_TransferOwnership ==
    [][/\ last'.op = "transfer_ownership" =>
            \A s \in Users, pid \in PolicyIds, a \in Users :
               transfer_ownership(s, pid, a) =>
                  IF s = policies[pid].owner
                  THEN /\ last'.err = "ok"
                       /\ policies' = [policies EXCEPT ![pid].owner = a]
                  ELSE /\ last'.err = "ENotOwner"
                       /\ policies' = policies
       /\ \A pid \in DOMAIN policies :
            policies'[pid].owner # policies[pid].owner =>
               /\ last' = [op |-> "transfer_ownership", err |-> "ok"]
               /\ transfer_ownership(policies[pid].owner, pid, policies'[pid].owner)
       /\ last'.op \in {"revoke_access", "revoke_access_batch", "transfer_ownership"} =>
            \A s \in Users, pid \in PolicyIds :
               ( /\ pid \in DOMAIN policies
                 /\ s # policies[pid].owner
                 /\ \/ \E u \in Users : revoke_access(s, pid, u)
                    \/ \E us \in Batches : revoke_access_batch(s, pid, us)
                    \/ \E a \in Users : transfer_ownership(s, pid, a) )
               => /\ last'.err = "ENotOwner"
                  /\ policies' = policies
      ]_vars

\* alice's registry, created with her private encrypted collection, now
\* belongs to bob, and a transfer_ownership that was not bob's was rejected.
C15_Witness ==
    /\ last = [op |-> "transfer_ownership", err |-> "ENotOwner"]
    /\ Len(collections) = 1
    /\ Len(policies) = 1
    /\ collections[1].owner = "alice"
    /\ collections[1].visibility = VISIBILITY_PRIVATE
    /\ collections[1].price = 30
    /\ collections[1].access_policy_id = 1
    /\ policies[1].collection_id = 1
    /\ policies[1].owner = "bob"

\* --------------------------------------------------------------------- C16
\* C16: update_platform_address and update_platform_fees called by a
\* principal who is not the current platform_address are rejected and leave
\* the fee policy unchanged; the fee policy changes only in a committed call of
\* one of them by the current holder, which sets exactly the fields it names;
\* and every committed purchase or tip sends its fee to the platform_address
\* current at that step.
C16_FeePolicyHolderOnly ==
    [][/\ last'.op \in {"update_platform_address", "update_platform_fees"} =>
            \A s \in Admins :
               /\ \A a \in Tippers :
                     update_platform_address(s, a) =>
                        IF s # config.platform_address
                        THEN last'.err = "ENotOwner" /\ config' = config
                        ELSE last'.err = "ok" =>
                                config' = [config EXCEPT !.platform_address = a]
               /\ \A f \in FeeInputs :
                     update_platform_fees(s, f[1], f[2]) =>
                        IF s # config.platform_address
                        THEN last'.err = "ENotOwner" /\ config' = config
                        ELSE last'.err = "ok" =>
                                config' = [config EXCEPT !.purchase_fee_bps = f[1],
                                                         !.tip_fee_bps = f[2]]
       /\ config' # config =>
            /\ last'.err = "ok"
            /\ \/ \E a \in Tippers : update_platform_address(config.platform_address, a)
               \/ \E f \in FeeInputs :
                     update_platform_fees(config.platform_address, f[1], f[2])
       /\ ( /\ last'.err = "ok"
            /\ last'.op \in {"purchase_access", "purchase_access_encrypted", "tip_creator"} )
          => /\ Len(transfers') >= 2
             /\ transfers'[2].to = config'.platform_address
      ]_vars

\* After carol handed the platform address to bob, a call that was not bob's
\* was rejected and the fees are still the initial ones.
C16_Witness ==
    /\ last.err = "ENotOwner"
    /\ last.op \in {"update_platform_address", "update_platform_fees"}
    /\ config.platform_address = "bob"
    /\ config.purchase_fee_bps = INIT_PURCHASE_FEE_BPS
    /\ config.tip_fee_bps = INIT_TIP_FEE_BPS

\* --------------------------------------------------------------------- C17
\* C17: in every reachable state purchase_fee_bps and tip_fee_bps are within
\* 0..10000 (a call of update_platform_fees with a larger value is rejected).
C17_FeesWithinRange ==
    /\ config.purchase_fee_bps \in 0..BPS_DENOMINATOR
    /\ config.tip_fee_bps \in 0..BPS_DENOMINATOR

\* --------------------------------------------------------------------- C18
\* C18: in every reachable state, every collection has access_policy_id set
\* if and only if is_encrypted is true, and the registry it names exists and
\* its collection_id is this collection.
C18_PolicyIdIffEncrypted ==
    \A c \in DOMAIN collections :
        /\ collections[c].access_policy_id # NoId <=> collections[c].is_encrypted
        /\ collections[c].access_policy_id # NoId =>
              /\ collections[c].access_policy_id \in DOMAIN policies
              /\ policies[collections[c].access_policy_id].collection_id = c

\* --------------------------------------------------------------------- C19
\* C19: a committed create_collection appends one collection owned by the
\* caller with the four statistics zero and is_deleted false, and leaves the
\* existing collections as they were.  With is_encrypted it appends in the same
\* step one registry owned by the caller, with no authorized user, whose
\* collection_id is the new collection, and the collection's access_policy_id
\* is that registry; without, no registry is created or changed and
\* access_policy_id is none.
C19_CreateCollection ==
    [][last' = [op |-> "create_collection", err |-> "ok"] =>
         \A s \in Creators, inp \in CreateInputs :
            create_collection(s, inp) =>
               LET cid == Len(collections) + 1
                   pid == Len(policies) + 1
               IN  /\ Len(collections') = cid
                   /\ SubSeq(collections', 1, Len(collections)) = collections
                   /\ collections'[cid].owner = s
                   /\ Stats(collections'[cid]) = <<0, 0, 0, 0>>
                   /\ collections'[cid].is_deleted = FALSE
                   /\ collections'[cid].is_encrypted = inp.is_encrypted
                   /\ IF inp.is_encrypted
                      THEN /\ Len(policies') = pid
                           /\ SubSeq(policies', 1, Len(policies)) = policies
                           /\ policies'[pid].owner = s
                           /\ policies'[pid].authorized_users = {}
                           /\ policies'[pid].total_authorized = 0
                           /\ policies'[pid].collection_id = cid
                           /\ collections'[cid].access_policy_id = pid
                           /\ \A c \in DOMAIN collections :
                                 collections[c].access_policy_id # pid
                      ELSE /\ policies' = policies
                           /\ collections'[cid].access_policy_id = NoId
      ]_vars

\* The second collection alice created is encrypted and got the second
\* registry, linked both ways.
C19_Witness ==
    /\ last = [op |-> "create_collection", err |-> "ok"]
    /\ Len(collections) = 2
    /\ Len(policies) = 2
    /\ collections[2].is_encrypted
    /\ collections[2].owner = "alice"
    /\ collections[2].access_policy_id = 2
    /\ policies[2] = [collection_id |-> 2, owner |-> "alice",
                      authorized_users |-> {}, total_authorized |-> 0]
    /\ emitted = <<CollectionCreated(2, "alice", collections[2].name,
                                     collections[2].visibility,
                                     Len(collections[2].files), TRUE)>>

\* --------------------------------------------------------------------- C20
\* The five per-file vectors of a creation call have one length.
SameLengths(inp) ==
    /\ Len(inp.file_names) = Len(inp.blob_ids)
    /\ Len(inp.content_types) = Len(inp.blob_ids)
    /\ Len(inp.file_sizes) = Len(inp.blob_ids)
    /\ Len(inp.is_encrypted_flags) = Len(inp.blob_ids)

\* files is the manifest of inp: one entry per file, in input order.
IsManifestOf(files, inp) ==
    /\ Len(files) = Len(inp.blob_ids)
    /\ \A i \in DOMAIN files :
          files[i] = [blob_id |-> inp.blob_ids[i], name |-> inp.file_names[i],
                      content_type |-> inp.content_types[i],
                      size_bytes |-> inp.file_sizes[i],
                      is_encrypted |-> inp.is_encrypted_flags[i]]

\* The outcome C20 requires of a creation call with arguments inp.
CreationChecksLengths(inp) ==
    IF SameLengths(inp)
    THEN /\ last'.err = "ok"
         /\ IsManifestOf(collections'[Len(collections')].files, inp)
    ELSE /\ last'.err # "ok"
         /\ UNCHANGED <<collections, policies, tokens, config>>

\* C20: create_collection and create_collection_with_policy are rejected,
\* with no object created and no registry linked, whenever the five per-file
\* vectors do not all have the same length (shorter or longer than blob_ids);
\* with equal lengths the stored manifest has one entry per file in input order.
C20_MismatchedArraysRejected ==
    [][last'.op \in {"create_collection", "create_collection_with_policy"} =>
         /\ \A s \in Creators, inp \in CreateInputs :
               create_collection(s, inp) => CreationChecksLengths(inp)
         /\ \A s \in Users, inp \in WithPolicyInputs, pid \in PolicyIds :
               create_collection_with_policy(s, inp, pid) => CreationChecksLengths(inp)
      ]_vars

\* --------------------------------------------------------------------- C21
\* C21 as stated: has_access returns true for the collection's owner in
\* every state of the collection.
C21_OwnerAlwaysHasAccess ==
    \A c \in DOMAIN collections, t \in Times :
        has_access(collections[c], collections[c].owner, t)

\* C21 amended: has_access returns true for the collection's owner in every
\* state in which the collection is not deleted, whatever its visibility.
C21_OwnerHasAccessUnlessDeleted ==
    \A c \in DOMAIN collections, t \in Times :
        ~collections[c].is_deleted =>
            has_access(collections[c], collections[c].owner, t) = TRUE

\* A private collection that is not deleted: its owner has access, bob has not.
C21_Witness ==
    \E c \in DOMAIN collections :
        /\ collections[c].visibility = VISIBILITY_PRIVATE
        /\ ~collections[c].is_deleted
        /\ collections[c].owner = "alice"
        /\ has_access(collections[c], "alice", 0)
        /\ ~has_access(collections[c], "bob", 0)

\* --------------------------------------------------------------------- C22
\* user holds an AccessToken of collection c.
HoldsToken(c, user) == \E i \in DOMAIN tokens : tokens[i] = AccessToken(c, user)

\* C22: has_access is false for everyone when the collection is deleted; for
\* a collection that is not deleted and a principal who is not the owner it is
\* true for Public and Unlisted and false for Private and for PayToSee, also
\* when the principal holds a token; and the timestamp never changes the result.
C22_HasAccessByVisibility ==
    \A c \in DOMAIN collections, u \in Addrs, t \in Times :
        LET collection == collections[c]
            r == has_access(collection, u, t)
        IN  /\ collection.is_deleted => r = FALSE
            /\ (~collection.is_deleted /\ u # collection.owner) =>
                  /\ collection.visibility \in {VISIBILITY_PUBLIC, VISIBILITY_UNLISTED}
                        => r = TRUE
                  /\ collection.visibility = VISIBILITY_PRIVATE => r = FALSE
                  /\ collection.visibility = VISIBILITY_PAY_TO_SEE => r = FALSE
            /\ \A t2 \in Times : has_access(collection, u, t2) = r

\* bob bought access to a PayToSee collection and has_access is still false
\* for bob.
C22_Witness ==
    /\ last.op \in {"purchase_access", "purchase_access_encrypted"}
    /\ last.err = "ok"
    /\ \E c \in DOMAIN collections :
          /\ collections[c].visibility = VISIBILITY_PAY_TO_SEE
          /\ ~collections[c].is_deleted
          /\ collections[c].owner # "bob"
          /\ HoldsToken(c, "bob")
          /\ ~has_access(collections[c], "bob", 1000)

\* --------------------------------------------------------------------- C23
\* The cover-image references a caller of update_collection wants stored.
CoverChoices == { <<"cover1">>, <<"cover2", "cover3">> }

\* The fields update_collection has to leave alone.
UpdateFrame(collection) ==
    <<collection.files, Stats(collection), collection.is_encrypted,
      collection.encryption_key_hash, collection.access_policy_id,
      collection.owner, collection.is_deleted>>

\* No step changes the file manifest or is_encrypted of an existing collection.
ManifestAndModeFixed ==
    \A c \in DOMAIN collections :
        /\ c \in DOMAIN collections'
        /\ collections'[c].files = collections[c].files
        /\ collections'[c].is_encrypted = collections[c].is_encrypted

\* The six fields a committed update_collection(s, c, upd) stores, and its frame.
UpdateStoresSix(c, upd) ==
    /\ collections'[c].name = upd.name
    /\ collections'[c].description = upd.description
    /\ collections'[c].category = upd.category
    /\ collections'[c].tags = upd.tags
    /\ collections'[c].visibility = upd.visibility
    /\ collections'[c].price = upd.price
    /\ UpdateFrame(collections'[c]) = UpdateFrame(collections[c])
    /\ \A other \in DOMAIN collections \ {c} : collections'[other] = collections[other]

C24_VisibilityIsDefined ==
    \A c \in DOMAIN collections :
        collections[c].visibility \in {VISIBILITY_PUBLIC, VISIBILITY_PRIVATE,
                                       VISIBILITY_PAY_TO_SEE, VISIBILITY_UNLISTED}

\* --------------------------------------------------------------------- C25
\* The number of events of the step that have the fields of ev.
Emitted(ev) == Cardinality({ k \in DOMAIN emitted' : emitted'[k] = ev })

\* The number of events of the step of the given type.
EmittedOfType(type) == Cardinality({ k \in DOMAIN emitted' : emitted'[k].type = type })

\* Registry pid gets its collection_id in this step: it is created linked, or
\* its collection_id changes to that of a collection.
LinkedInStep(pid) ==
    /\ policies'[pid].collection_id # NoId
    /\ pid \in DOMAIN policies => policies'[pid].collection_id # policies[pid].collection_id

Granted == { <<pid, u>> \in (DOMAIN policies') \X Addrs :
               /\ u \in policies'[pid].authorized_users
               /\ pid \in DOMAIN policies => u \notin policies[pid].authorized_users }

Revoked == { <<pid, u>> \in (DOMAIN policies) \X Addrs :
               /\ u \in policies[pid].authorized_users
               /\ u \notin policies'[pid].authorized_users }

\* C25: the events of every step are exactly the events of its transitions,
\* one each: a collection created, updated, deleted, purchased or tipped; a
\* principal newly added to or removed from a registry; a registry's ownership
\* transferred; a registry linked to a collection (created linked, or linked by
\* link_to_collection).  A rejected call, and a grant or revoke that changes
\* nothing, emits nothing.  The log is the concatenation of the steps' events,
\* so the order of the transitions across steps is kept by construction.
C25_EventLogComplete ==
    [][/\ last'.err # "ok" => emitted' = <<>>
       /\ \A c \in DOMAIN collections' \ DOMAIN collections :
             /\ Emitted(CollectionCreated(c, collections'[c].owner, collections'[c].name,
                                          collections'[c].visibility,
                                          Len(collections'[c].files),
                                          collections'[c].is_encrypted)) = 1
       /\ EmittedOfType("CollectionCreated") = Len(collections') - Len(collections)
       /\ \A c \in DOMAIN collections :
             LET old == collections[c]
                 new == collections'[c]
                 updated == last' = [op |-> "update_collection", err |-> "ok"]
                            /\ \E s \in Users, upd \in UpdateInputs : update_collection(s, c, upd)
             IN  /\ Emitted(CollectionUpdated(c, new.name, new.description,
                                              new.visibility, new.price))
                       = IF updated THEN 1 ELSE 0
                 /\ Emitted(CollectionDeleted(c, old.owner))
                       = IF new.is_deleted /\ ~old.is_deleted THEN 1 ELSE 0
                 /\ Cardinality({ k \in DOMAIN emitted' :
                                     /\ emitted'[k].type = "AccessPurchased"
                                     /\ emitted'[k].collection_id = c
                                     /\ emitted'[k].price = old.price })
                       = new.purchase_count - old.purchase_count
                 /\ Cardinality({ k \in DOMAIN emitted' :
                                     /\ emitted'[k].type = "TipReceived"
                                     /\ emitted'[k].collection_id = c
                                     /\ emitted'[k].amount = new.total_tips - old.total_tips })
                       = new.tip_count - old.tip_count
       /\ \A g \in Granted : Emitted(AccessGranted(g[1], g[2])) = 1
       /\ EmittedOfType("AccessGranted") = Cardinality(Granted)
       /\ \A r \in Revoked : Emitted(AccessRevoked(r[1], r[2])) = 1
       /\ EmittedOfType("AccessRevoked") = Cardinality(Revoked)
       /\ \A pid \in DOMAIN policies :
             Emitted(PolicyOwnershipTransferred(pid, policies[pid].owner, policies'[pid].owner))
                = IF last' = [op |-> "transfer_ownership", err |-> "ok"]
                     /\ \E s \in Users :
                           transfer_ownership(s, pid, policies'[pid].owner)
                  THEN 1 ELSE 0
       /\ \A pid \in DOMAIN policies' :
             LinkedInStep(pid) =>
                Emitted(PolicyLinkedToCollection(pid, policies'[pid].collection_id)) = 1
       /\ EmittedOfType("PolicyLinkedToCollection")
             = Cardinality({ pid \in DOMAIN policies' : LinkedInStep(pid) })
       /\ Len(emitted') = EmittedOfType("CollectionCreated")
                          + EmittedOfType("CollectionUpdated")
                          + EmittedOfType("CollectionDeleted")
                          + EmittedOfType("AccessPurchased")
                          + EmittedOfType("TipReceived")
                          + EmittedOfType("AccessGranted")
                          + EmittedOfType("AccessRevoked")
                          + EmittedOfType("PolicyOwnershipTransferred")
                          + EmittedOfType("PolicyLinkedToCollection")
      ]_vars

\* --------------------------------------------------------------------- C26
\* The number of tokens in ts minted for collection c.
TokensOf(ts, c) == Cardinality({ i \in DOMAIN ts : ts[i].collection_id = c })

\* C26: purchases are atomic steps and none is lost under any interleaving:
\* after every step purchase_count of every collection is the number of tokens
\* minted for it; a token is minted only by a committed purchase, is appended
\* with the caller as owner, and that step adds 1 to purchase_count and the
\* price then in force to total_earnings; and purchase_count and
\* total_earnings change in no other step.
C26_NoLostPurchase ==
    [][/\ \A c \in DOMAIN collections' :
             collections'[c].purchase_count = TokensOf(tokens', c)
       /\ tokens' # tokens =>
             /\ last'.err = "ok"
             /\ last'.op \in {"purchase_access", "purchase_access_encrypted"}
             /\ \E s \in Users, c \in DOMAIN collections :
                   /\ \E v \in Payments : PurchaseCall(s, c, v)
                   /\ tokens' = Append(tokens, AccessToken(c, s))
                   /\ collections'[c].purchase_count = collections[c].purchase_count + 1
                   /\ collections'[c].total_earnings =
                         collections[c].total_earnings + collections[c].price
                   /\ \A other \in DOMAIN collections \ {c} :
                         collections'[other] = collections[other]
       /\ tokens' = tokens =>
             \A c \in DOMAIN collections :
                /\ collections'[c].purchase_count = collections[c].purchase_count
                /\ collections'[c].total_earnings = collections[c].total_earnings
      ]_vars

\* bob and alice bought the same collection one after the other: two tokens
\* in purchase order, purchase_count 2, earnings twice the price.
C26_Witness ==
    \E c \in DOMAIN collections :
        /\ tokens = <<AccessToken(c, "bob"), AccessToken(c, "alice")>>
        /\ collections[c].purchase_count = 2
        /\ collections[c].total_earnings = 2 * collections[c].price
        /\ collections[c].price = 1000

\* --------------------------------------------------------------------- C27
\* C27: a registry's collection_id is set only by a call of the registry's
\* owner: create_collection_with_policy called by another principal leaves the
\* collection_id of the registry it passes as it was, and every change of an
\* existing registry's collection_id is made by a call of its owner.
C27_LinkOnlyByRegistryOwner ==
    [][/\ last'.op = "create_collection_with_policy" =>
            \A s \in Users, inp \in WithPolicyInputs, pid \in PolicyIds :
               ( /\ pid \in DOMAIN policies
                 /\ s # policies[pid].owner
                 /\ create_collection_with_policy(s, inp, pid) )
               => policies'[pid].collection_id = policies[pid].collection_id
       /\ \A pid \in DOMAIN policies :
            policies'[pid].collection_id # policies[pid].collection_id =>
               \E inp \in WithPolicyInputs :
                  create_collection_with_policy(policies[pid].owner, inp, pid)
      ]_vars

\* --------------------------------------------------------------------- C28
\* C28: update_collection and delete_collection leave every registry
\* unchanged, and for every caller and request id seal_approve and
\* verify_decrypt_access accept or reject after the step as they did before it.
C28_RegistryIndependentOfCollection ==
    [][last'.op \in {"update_collection", "delete_collection"} =>
         /\ policies' = policies
         /\ \A pid \in DOMAIN policies, s \in Addrs :
               /\ verify_decrypt_access_abort(policies[pid], s)'
                     = verify_decrypt_access_abort(policies[pid], s)
               /\ \A id \in RequestIds :
                     seal_approve_abort(policies[pid], pid, id, s)'
                        = seal_approve_abort(policies[pid], pid, id, s)
      ]_vars

\* After alice deleted her encrypted collection the key-server check on its
\* registry still accepted her request.
C28_Witness ==
    /\ last.op = "seal_approve"
    /\ last.err = "ok"
    /\ LET policy == policies[last.policy] IN
          /\ policy.collection_id \in DOMAIN collections
          /\ collections[policy.collection_id].is_deleted
          /\ collections[policy.collection_id].access_policy_id = last.policy
          /\ collections[policy.collection_id].is_encrypted

\* --------------------------------------------------------------------- C29
\* A principal who bought collection c before, or who owns it.
RepeatBuyer(c, s) == HoldsToken(c, s) \/ collections[c].owner = s

\* The preconditions the purchase operation lists: not deleted, PayToSee,
\* the entry point's mode, payment at least the price, and for the encrypted
\* entry point the collection's own registry.
OrdinaryPreconditions(c, v, encrypted) ==
    /\ ~collections[c].is_deleted
    /\ collections[c].visibility = VISIBILITY_PAY_TO_SEE
    /\ collections[c].is_encrypted = encrypted
    /\ v >= collections[c].price

\* What the asserts and the checked arithmetic accept for any caller: the
\* ordinary preconditions and a platform fee that does not exceed the price.
AcceptedForAnyone(c, v, encrypted) ==
    /\ OrdinaryPreconditions(c, v, encrypted)
    /\ \E f \in 0..collections[c].price :
          IsFloorFee(f, collections[c].price, config.purchase_fee_bps)

\* The step charged the full price of c to s out of v, booked it and minted a
\* further token for s.
ChargedAgain(s, c, v) ==
    LET p == collections[c].price IN
    /\ Len(transfers') >= 2
    /\ transfers'[1].to = collections[c].owner
    /\ transfers'[1].amount + transfers'[2].amount = p
    /\ IF v > p THEN /\ Len(transfers') = 3
                     /\ transfers'[3] = Transfer(s, v - p)
                ELSE Len(transfers') = 2
    /\ collections'[c].purchase_count = collections[c].purchase_count + 1
    /\ collections'[c].total_earnings = collections[c].total_earnings + p
    /\ tokens' = Append(tokens, AccessToken(c, s))

C30_CanDecryptImpliesHasAccess ==
    \A c \in DOMAIN collections, pid \in DOMAIN policies, u \in Addrs, t \in Times :
        LET collection == collections[c]
            policy == policies[pid]
            r == can_decrypt(collection, policy, u, t)
        IN  /\ r => has_access(collection, u, t)
            /\ (r /\ collection.is_encrypted) => policy_can_decrypt(policy, u)
            /\ ( /\ collection.visibility = VISIBILITY_PAY_TO_SEE
                 /\ u # collection.owner ) => r = FALSE

\* Right after bob's successful purchase_access_encrypted through the
\* collection's own registry the registry authorizes bob and collection-level
\* can_decrypt still refuses him.
C30_Witness ==
    /\ last = [op |-> "purchase_access_encrypted", err |-> "ok"]
    /\ Len(tokens) >= 1
    /\ tokens[Len(tokens)].owner = "bob"
    /\ LET c == tokens[Len(tokens)].collection_id
           pid == collections[c].access_policy_id
       IN  /\ collections[c].owner = "alice"
           /\ collections[c].is_encrypted
           /\ collections[c].visibility = VISIBILITY_PAY_TO_SEE
           /\ pid \in DOMAIN policies
           /\ "bob" \in policies[pid].authorized_users
           /\ policy_can_decrypt(policies[pid], "bob")
           /\ \A t \in Times : ~can_decrypt(collections[c], policies[pid], "bob", t)

====
